---------------------------- MODULE Spec2Model ----------------------------
(***************************************************************************)
(* A model of to_dict.py: the WoTDict accumulator (link pattern table,     *)
(* backlink resolution, definition rewriting, multi-book merge), the       *)
(* alternate-word generator and the orchestration of main.                 *)
(*                                                                         *)
(* Text is modelled at the character level: a string is a sequence of      *)
(* one-character strings.  The HTML fragments the code inserts are kept as *)
(* single elements of such a sequence; none of them holds a character the  *)
(* regular expressions of the code look for ("[", "]", "(", ")", "#",      *)
(* "_"), so they behave exactly like the run of characters they stand for. *)
(* Identifiers and display names of the ingestion model are one-character  *)
(* strings, hence they are exact characters of the text as well.           *)
(***************************************************************************)
EXTENDS Integers, Sequences, FiniteSets, TLC

VARIABLES
    entries,        \* WoTDict._entries: name -> list of DictEntry
    link_patterns,  \* WoTDict._link_patterns, in dict insertion order
    history,        \* ghost: the ingest calls made on this WoTDict so far
    defi,           \* the text handed to _convert_defi_links
    converted,      \* what _convert_defi_links returned for defi
    word,           \* the name handed to _get_alt_words
    alt_words,      \* the strings _get_alt_words yielded for word
    files,          \* assets/data/book-NN.json: book number -> records
    dicts,          \* the WoTDict objects of a run of main, by object id
    pc,             \* main's position: <<variant index, build step>>
    written,        \* ghost: the last write_dict call of main (variant 0: none)
    log             \* ghost: per variant, the occurrences it has ingested

vars == <<entries, link_patterns, history, defi, converted, word, alt_words,
          files, dicts, pc, written, log>>

dictVars == <<entries, link_patterns, history>>
textVars == <<defi, converted>>
altVars  == <<word, alt_words>>
mainVars == <<files, dicts, pc, written, log>>

\* The value of a variable a specification does not use, and of a result
\* that has not been computed yet.
Unused  == "unused"
Pending == "pending"

---------------------------------------------------------------------------
(* Bounds of the model *)

\* Book numbers handed to WoTDict.ingest range over 0..MaxBookNumber.
MaxBookNumber == 2
\* Longest book (in records) of the single-book specification.
MaxRecords == 2
\* Longest text (in items) handed to _convert_defi_links.
MaxItems == 3
\* Longest name (in characters) handed to _get_alt_words.
MaxWordLen == 4
\* The book files of a run of main repeat with this period: the files of two
\* book numbers that are equal modulo FilePeriod hold the same records.
FilePeriod == 2

---------------------------------------------------------------------------
(* Sequence helpers *)

Range(s) == {s[i] : i \in DOMAIN s}

Min(S) == CHOOSE x \in S : \A y \in S : x <= y

Max(S) == CHOOSE x \in S : \A y \in S : x >= y

\* The sequences over S of length 1..n.
SeqsUpTo(S, n) == UNION {[1..k -> S] : k \in 1..n}

\* Index of the first c at or after position i of text, 0 when there is none.
FirstIndex(text, i, c) ==
    LET hits == {j \in i..Len(text) : text[j] = c}
    IN  IF hits = {} THEN 0 ELSE Min(hits)

\* Whether sub occurs in text as a contiguous run.
Contains(text, sub) ==
    \E i \in 1..(Len(text) - Len(sub) + 1) :
        SubSeq(text, i, i + Len(sub) - 1) = sub

---------------------------------------------------------------------------
(* The HTML fragments of _convert_defi_links *)

EmOpen  == "<em class=\"dict-emphasis\">"
EmClose == "</em>"
AOpen   == "<a class=\"dict-internal-link\" href=\"bword://"
AMid    == "\">"
AClose  == "</a>"

\* The markdown link [label](#id) as text.
Link(label, id) == <<"[">> \o label \o <<"]", "(", "#", id, ")">>

---------------------------------------------------------------------------
(* The link regular expression of _compile_link_patterns: "[", a label    *)
(* free of "]", then "](#", the identifier and ")".                        *)

\* Whether the pattern of id matches text starting at position i.  The label
\* group can only stop at the first "]" after the "[", so the match is unique.
LinkMatchAt(text, i, id) ==
    /\ i <= Len(text)
    /\ text[i] = "["
    /\ LET k == FirstIndex(text, i + 1, "]")
       IN  /\ k # 0
           /\ k + 4 <= Len(text)
           /\ text[k + 1] = "("
           /\ text[k + 2] = "#"
           /\ text[k + 3] = id
           /\ text[k + 4] = ")"

\* p.search(text)
PatternSearch(text, id) ==
    \E i \in {j \in DOMAIN text : text[j] = "["} : LinkMatchAt(text, i, id)

\* A variant that anchors the link text with the target name instead of \1.
LinkReplacementByName(name, label) == <<AOpen, name, AMid, name, AClose>>

\* The replacement template: the target name as href, group 1 as link text.
LinkReplacement(name, label) == <<AOpen, name, AMid>> \o label \o <<AClose>>

\* r.sub(template, text) from position i on: leftmost, non-overlapping.
RECURSIVE LinkSubFrom(_, _, _, _)
LinkSubFrom(text, i, id, name) ==
    IF i > Len(text) THEN <<>>
    ELSE IF \A j \in i..Len(text) : text[j] # "["
         THEN SubSeq(text, i, Len(text))    \* no match can start any more
    ELSE IF LinkMatchAt(text, i, id)
         THEN LET k == FirstIndex(text, i + 1, "]")
              IN  LinkReplacement(name, SubSeq(text, i + 1, k - 1))
                      \o LinkSubFrom(text, k + 5, id, name)
         ELSE <<text[i]>> \o LinkSubFrom(text, i + 1, id, name)

---------------------------------------------------------------------------
(* The emphasis regular expression: a run free of "_", then "_", a         *)
(* non-empty run free of "_", then "_".                                    *)

\* A match starting at i runs to the second "_" at or after i, and exists
\* when at least one character separates the two underscores.
EmphasisEnd(text, i) ==
    LET u == FirstIndex(text, i, "_")
        v == IF u = 0 THEN 0 ELSE FirstIndex(text, u + 1, "_")
    IN  IF u # 0 /\ v > u + 1 THEN v ELSE 0

RECURSIVE EmphasisFrom(_, _)
EmphasisFrom(text, i) ==
    IF i > Len(text) THEN <<>>
    ELSE IF \A j \in i..Len(text) : text[j] # "_"
         THEN SubSeq(text, i, Len(text))    \* no match can start any more
    ELSE LET v == EmphasisEnd(text, i)
         IN  IF v # 0
             THEN LET u == FirstIndex(text, i, "_")
                  IN  SubSeq(text, i, u - 1) \o <<EmOpen>>
                          \o SubSeq(text, u + 1, v - 1) \o <<EmClose>>
                          \o EmphasisFrom(text, v + 1)
             ELSE <<text[i]>> \o EmphasisFrom(text, i + 1)

\* The loop over self._link_patterns.items(), from pattern j on.
RECURSIVE ApplyPatterns(_, _, _)
ApplyPatterns(patterns, j, text) ==
    IF j > Len(patterns) THEN text
    ELSE ApplyPatterns(patterns, j + 1,
                       LinkSubFrom(text, 1, patterns[j].id, patterns[j].name))

\* WoTDict._convert_defi_links
ConvertDefiLinks(patterns, text) ==
    ApplyPatterns(patterns, 1, EmphasisFrom(text, 1))

---------------------------------------------------------------------------
(* The link pattern table: a dict from compiled pattern to display name,   *)
(* kept as the sequence of its items in insertion order.  Two patterns     *)
(* compiled from the same identifier are equal keys.                       *)

HasKey(d, id) == \E i \in DOMAIN d : d[i].id = id

\* d[id], for a key of d
Lookup(d, id) == d[CHOOSE i \in DOMAIN d : d[i].id = id].name

\* d[id] = name: a present key keeps its place and takes the new value, a
\* new key goes last.
DictSet(d, id, name) ==
    IF HasKey(d, id)
    THEN [i \in DOMAIN d |->
             IF d[i].id = id THEN [id |-> id, name |-> name] ELSE d[i]]
    ELSE Append(d, [id |-> id, name |-> name])

\* WoTDict._compile_link_patterns: the dict comprehension over jdata, from
\* record i on, built on d.
RECURSIVE CompileFrom(_, _, _)
CompileFrom(d, jdata, i) ==
    IF i > Len(jdata) THEN d
    ELSE CompileFrom(DictSet(d, jdata[i].id, jdata[i].name), jdata, i + 1)

CompileLinkPatterns(jdata) == CompileFrom(<<>>, jdata, 1)

RECURSIVE UpdateFrom(_, _, _)
UpdateFrom(old, new, i) ==
    IF i > Len(new) THEN old
    ELSE UpdateFrom(DictSet(old, new[i].id, new[i].name), new, i + 1)

\* A merge that keeps the mapping an identifier already has.
MergePatternsKeepOld(old, new) ==
    UpdateFrom(old, SelectSeq(new, LAMBDA kv : ~HasKey(old, kv.id)), 1)

\* self._link_patterns |= new
MergePatterns(old, new) == UpdateFrom(old, new, 1)

---------------------------------------------------------------------------
(* Backlinks *)

\* A resolver that also counts the records that carry the name itself.
FindBacklinksByName(patterns, name, jdata) ==
    {jdata[i].name : i \in {i \in DOMAIN jdata :
        \/ jdata[i].name = name
        \/ \E j \in DOMAIN patterns :
              /\ patterns[j].name = name
              /\ PatternSearch(jdata[i].info, patterns[j].id)}}

\* A resolver that searches with every pattern of the table, whatever name
\* the pattern maps to.
FindBacklinksAnyPattern(patterns, name, jdata) ==
    {jdata[i].name : i \in {i \in DOMAIN jdata :
        \E j \in DOMAIN patterns : PatternSearch(jdata[i].info, patterns[j].id)}}

\* WoTDict._find_backlinks: the names of the records of jdata whose info
\* matches a pattern of the table that maps to name.
FindBacklinks(patterns, name, jdata) ==
    LET backlink_patterns ==
            {patterns[j].id : j \in {j \in DOMAIN patterns :
                                        patterns[j].name = name}}
    IN  {jdata[i].name : i \in {i \in DOMAIN jdata :
            \E id \in backlink_patterns : PatternSearch(jdata[i].info, id)}}

---------------------------------------------------------------------------
(* The multi-book merge of WoTDict.ingest *)

\* Where a stable descending sort puts e among the already sorted ets:
\* behind every entry whose book number is at least its own.
RECURSIVE InsertDesc(_, _)
InsertDesc(ets, e) ==
    IF ets = <<>> THEN <<e>>
    ELSE IF Head(ets).book_number >= e.book_number
         THEN <<Head(ets)>> \o InsertDesc(Tail(ets), e)
         ELSE <<e>> \o ets

RECURSIVE SortFrom(_, _, _)
SortFrom(done, ets, i) ==
    IF i > Len(ets) THEN done
    ELSE SortFrom(InsertDesc(done, ets[i]), ets, i + 1)

\* A merge that leaves the list in arrival order: the new entry first.
Unsorted(ets) == ets

\* sorted(ets, key=lambda e: e.book_number, reverse=True): stable.
SortedByBookNumberReverse(ets) == SortFrom(<<>>, ets, 1)

\* Pruning variants: none at all; against the entries that are not older
\* (the entry itself included); against the older entries.
PruneNothing(ets) == ets

PruneNotOlder(ets) ==
    [i \in DOMAIN ets |->
        [ets[i] EXCEPT !.backlinks = @ \ UNION {ets[j].backlinks :
            j \in {j \in DOMAIN ets :
                      ets[j].book_number >= ets[i].book_number}}]]

PruneOlder(ets) ==
    [i \in DOMAIN ets |->
        [ets[i] EXCEPT !.backlinks = @ \ UNION {ets[j].backlinks :
            j \in {j \in DOMAIN ets :
                      ets[j].book_number < ets[i].book_number}}]]

\* The list comprehension over _ets: every entry loses the backlinks that
\* an entry of _ets with a greater book number holds (the reduce over set
\* difference).  The sets subtracted are those of _ets, as they were stored.
PruneBacklinks(ets) ==
    [i \in DOMAIN ets |->
        [ets[i] EXCEPT !.backlinks = @ \ UNION {ets[j].backlinks :
            j \in {j \in DOMAIN ets :
                      ets[j].book_number > ets[i].book_number}}]]

\* DictEntry(...) for record d
NewEntry(patterns, jdata, d, booknumber, booktitle) ==
    [book_number |-> booknumber,
     book_title  |-> booktitle,
     chapter     |-> d.chapter,
     definition  |-> ConvertDefiLinks(patterns, d.info),
     backlinks   |-> FindBacklinks(patterns, d.name, jdata)]

\* One turn of the loop over jdata: the entry mapping after record d.
AddEntry(ents, patterns, jdata, d, booknumber, booktitle) ==
    LET new_entry == NewEntry(patterns, jdata, d, booknumber, booktitle)
    IN  IF d.name \in DOMAIN ents
        THEN [ents EXCEPT ![d.name] =
                PruneBacklinks(SortedByBookNumberReverse(<<new_entry>> \o @))]
        ELSE [n \in DOMAIN ents \cup {d.name} |->
                IF n = d.name THEN <<new_entry>> ELSE ents[n]]

RECURSIVE IngestLoop(_, _, _, _, _, _)
IngestLoop(ents, patterns, jdata, i, booknumber, booktitle) ==
    IF i > Len(jdata) THEN ents
    ELSE IngestLoop(AddEntry(ents, patterns, jdata, jdata[i], booknumber,
                             booktitle),
                    patterns, jdata, i + 1, booknumber, booktitle)

\* The state of a WoTDict after ingest(jdata, booknumber, booktitle)
IngestPatterns(d, jdata) ==
    MergePatterns(d.link_patterns, CompileLinkPatterns(jdata))

IngestInto(d, jdata, booknumber, booktitle) ==
    LET patterns == IngestPatterns(d, jdata)
    IN  [entries       |-> IngestLoop(d.entries, patterns, jdata, 1,
                                      booknumber, booktitle),
         link_patterns |-> patterns]

\* WoTDict.__init__
NewWoTDict == [entries |-> <<>>, link_patterns |-> <<>>]

---------------------------------------------------------------------------
(* The books of main *)

books ==
    <<"The Eye of the World", "The Great Hunt", "The Dragon Reborn",
      "The Shadow Rising", "The Fires of Heaven", "Lord of Chaos",
      "A Crown of Swords", "The Path of Daggers", "Winter's Heart",
      "Crossroads of Twilight", "Knife of Dreams", "The Gathering Storm",
      "Towers of Midnight", "A Memory of Light">>

new_spring == <<0, "New Spring">>

BookTitle(num) == IF num = new_spring[1] THEN new_spring[2] ELSE books[num]

---------------------------------------------------------------------------
(* Book data: the records of one book-NN.json *)

Rec(id, name, info) == [id |-> id, name |-> name, chapter |-> "ch", info |-> info]

\* The books of one or two records over a set of records.
BooksOf(records) ==
    {<<r>> : r \in records} \cup {<<r, s>> : r \in records, s \in records}

\* Records of the merge specification: P (identifier a) without and with a
\* link to itself, and Q (identifier b) linking to P.
MergeRecords ==
    {Rec("a", "P", <<"x">>),
     Rec("a", "P", Link(<<"l">>, "a")),
     Rec("b", "Q", <<"s", " ">> \o Link(<<"l">>, "a"))}

\* The books of the merge specification: one record, two records of
\* different names, or the same record twice (a name listed twice).
MergeBooks ==
    {b \in BooksOf(MergeRecords) : Len(b) = 2 => (b[1].name # b[2].name \/ b[1] = b[2])}

\* Records of the single-book specification: every identifier with every
\* name, linking to nothing, to a, to b, or to both.
Ids   == {"a", "b"}
Names == {"P", "Q"}
Infos ==
    {<<"x">>, Link(<<"l">>, "a"), Link(<<"l">>, "b"),
     Link(<<"l">>, "a") \o <<" ">> \o Link(<<"m">>, "b")}

SingleRecords == {Rec(id, name, info) : id \in Ids, name \in Names, info \in Infos}

SingleBooks == SeqsUpTo(SingleRecords, MaxRecords)

\* Records of the pattern-table specification: every identifier with every
\* name, without links.
TableRecords == {Rec(id, name, <<"x">>) : id \in Ids, name \in Names}

TableBooks == BooksOf(TableRecords)

BookNumbers == 0..MaxBookNumber

---------------------------------------------------------------------------
(* WoTDict.ingest on one WoTDict *)

IngestedNumbers == {history[i].book_number : i \in DOMAIN history}

\* ingest(input_file, booknumber, booktitle), jdata being what the file
\* holds.  The ghost history keeps the call, the table it left and the set
\* _find_backlinks returned for each name of the book.
Ingest(jdata, booknumber) ==
    \E d \in {IngestInto([entries |-> entries, link_patterns |-> link_patterns],
                        jdata, booknumber, BookTitle(booknumber))} :
        /\ entries' = d.entries
        /\ link_patterns' = d.link_patterns
        /\ history' = Append(history,
               [book_number |-> booknumber,
                jdata       |-> jdata,
                patterns    |-> d.link_patterns,
                raw         |-> [n \in {jdata[i].name : i \in DOMAIN jdata} |->
                                    FindBacklinks(d.link_patterns, n, jdata)]])
        /\ UNCHANGED <<textVars, altVars, mainVars>>

InitDict ==
    /\ entries = <<>>
    /\ link_patterns = <<>>
    /\ history = <<>>
    /\ defi = Unused /\ converted = Unused
    /\ word = Unused /\ alt_words = Unused
    /\ files = Unused /\ dicts = Unused /\ pc = Unused
    /\ written = Unused /\ log = Unused

\* Books ingested in any order, each book number at most once (main hands a
\* WoTDict every book once).
IngestAnyOrder ==
    \E n \in BookNumbers \ IngestedNumbers :
        \E jdata \in MergeBooks : Ingest(jdata, n)

\* One book ingested into a fresh WoTDict.
IngestSingle ==
    /\ history = <<>>
    /\ \E jdata \in SingleBooks, n \in BookNumbers : Ingest(jdata, n)

\* Books ingested in the order of their numbers.
IngestInOrder ==
    /\ Len(history) \in BookNumbers
    /\ \E jdata \in TableBooks : Ingest(jdata, Len(history))

Spec       == InitDict /\ [][IngestAnyOrder]_vars
SpecSingle == InitDict /\ [][IngestSingle]_vars
SpecTable  == InitDict /\ [][IngestInOrder]_vars

---------------------------------------------------------------------------
(* What the claims about the merge speak of *)

\* Whether text holds a markdown link to id: "[", a label free of "]",
\* then "](#id)".
ContainsLinkTo(text, id) ==
    \E i \in DOMAIN text, k \in DOMAIN text :
        /\ i < k
        /\ text[i] = "["
        /\ text[k] = "]"
        /\ \A j \in (i + 1)..(k - 1) : text[j] # "]"
        /\ k + 4 <= Len(text)
        /\ SubSeq(text, k + 1, k + 4) = <<"(", "#", id, ")">>

UniqueNames(jdata) ==
    \A i \in DOMAIN jdata, j \in DOMAIN jdata :
        jdata[i].name = jdata[j].name => i = j

UniqueIds(jdata) ==
    \A i \in DOMAIN jdata, j \in DOMAIN jdata :
        jdata[i].id = jdata[j].id => i = j

\* No ingested book lists a name twice.
NoDuplicateNames == \A i \in DOMAIN history : UniqueNames(history[i].jdata)

\* The ingest calls whose book holds name n.
CallsWith(n) == {i \in DOMAIN history : n \in DOMAIN history[i].raw}

\* The set _find_backlinks returned for n when book number b was ingested.
RawBacklinks(n, b) ==
    UNION {history[i].raw[n] : i \in {i \in CallsWith(n) : history[i].book_number = b}}

\* The raw sets of the occurrences of n with a book number above b.
NewerRaw(n, b) ==
    UNION {history[i].raw[n] : i \in {i \in CallsWith(n) : history[i].book_number > b}}

Stored(n) == {entries[n][i].backlinks : i \in DOMAIN entries[n]}

PairwiseDisjoint(n) ==
    \A i \in DOMAIN entries[n], j \in DOMAIN entries[n] :
        i # j => entries[n][i].backlinks \cap entries[n][j].backlinks = {}

\* Some occurrence of n has lost a backlink to pruning.
Pruned(n) ==
    \E i \in DOMAIN entries[n] :
        entries[n][i].backlinks # RawBacklinks(n, entries[n][i].book_number)

\* The books were not ingested in the order of their numbers.
OutOfOrder ==
    \E i \in DOMAIN history, j \in DOMAIN history :
        i < j /\ history[i].book_number > history[j].book_number

---------------------------------------------------------------------------
\* C1 as stated: after any sequence of ingest calls, the backlink sets of the
\* occurrences of one name are pairwise disjoint.
C1_DisjointAlways == \A n \in DOMAIN entries : PairwiseDisjoint(n)

\* C1, amended: when the books have distinct numbers and none lists a name
\* twice, the backlink sets of the occurrences of one name are pairwise
\* disjoint.
C1_DisjointBacklinks ==
    NoDuplicateNames => \A n \in DOMAIN entries : PairwiseDisjoint(n)

\* Two books that detect the same referencing name have been merged.
C1_Witness ==
    /\ NoDuplicateNames
    /\ \E n \in DOMAIN entries :
          /\ Len(entries[n]) >= 2
          /\ Pruned(n)

\* C2: the union of the stored backlink sets of a name equals the union of
\* the raw sets _find_backlinks returned for it, one per ingestion.
C2_UnionPreserved ==
    \A n \in DOMAIN entries :
        UNION Stored(n) = UNION {history[i].raw[n] : i \in CallsWith(n)}

\* Three books hold the name and pruning has moved a backlink.
C2_Witness ==
    \E n \in DOMAIN entries :
        /\ Cardinality(CallsWith(n)) >= 3
        /\ Pruned(n)

\* C3: an occurrence stores exactly the names of its raw set that are in
\* no raw set of an occurrence with a greater book number.
C3_NewestAttribution ==
    \A n \in DOMAIN entries : \A i \in DOMAIN entries[n] :
        LET b == entries[n][i].book_number
        IN  entries[n][i].backlinks = RawBacklinks(n, b) \ NewerRaw(n, b)

\* Book 0 was ingested after a later book, into a list of three, and lost a
\* backlink that a newer occurrence detected as well.
C3_Witness ==
    \E n \in DOMAIN entries :
        /\ Len(entries[n]) >= 3
        /\ Len(history) >= 2
        /\ history[Len(history)].book_number = 0
        /\ n \in DOMAIN history[Len(history)].raw
        /\ RawBacklinks(n, 0) \cap NewerRaw(n, 0) # {}
        /\ \A i \in DOMAIN entries[n] :
              entries[n][i].book_number = 0 =>
                  entries[n][i].backlinks # RawBacklinks(n, 0)

StrictlyDescending(ets) ==
    \A i \in DOMAIN ets, j \in DOMAIN ets :
        i < j => ets[i].book_number > ets[j].book_number

\* C4 as stated: whatever the books hold, every list is in strictly
\* descending order of book number.
C4_StrictAlways == \A n \in DOMAIN entries : StrictlyDescending(entries[n])

\* C4, amended: every list is ordered by descending book number, newest
\* first; strictly, without two occurrences of one book number, when no
\* ingested book lists a name twice.
C4_DescendingOrder ==
    \A n \in DOMAIN entries :
        /\ \A i \in DOMAIN entries[n], j \in DOMAIN entries[n] :
              i < j => entries[n][i].book_number >= entries[n][j].book_number
        /\ NoDuplicateNames => StrictlyDescending(entries[n])

\* Three occurrences of a name, ingested out of order.
C4_Witness ==
    /\ NoDuplicateNames
    /\ OutOfOrder
    /\ \E n \in DOMAIN entries : Len(entries[n]) >= 3

\* The call that ingested book number b saw a record named n whose info
\* links to an identifier the table maps to n.
SelfReference(n, b) ==
    \E i \in DOMAIN history :
        /\ history[i].book_number = b
        /\ \E r \in DOMAIN history[i].jdata, p \in DOMAIN history[i].patterns :
              /\ history[i].jdata[r].name = n
              /\ history[i].patterns[p].name = n
              /\ ContainsLinkTo(history[i].jdata[r].info, history[i].patterns[p].id)

\* C6 as stated: a name is never in the backlink set of its own occurrences.
C6_NeverSelf ==
    \A n \in DOMAIN entries : \A i \in DOMAIN entries[n] :
        n \notin entries[n][i].backlinks

\* C6, amended: a name is in the backlink set of one of its own occurrences
\* only when a record of that name, in that occurrence's book, links to an
\* identifier the table maps to the name.
C6_SelfOnlyByLink ==
    \A n \in DOMAIN entries : \A i \in DOMAIN entries[n] :
        n \in entries[n][i].backlinks =>
            SelfReference(n, entries[n][i].book_number)

\* A name with an occurrence whose record links to itself and an occurrence
\* that holds other names only.
C6_Witness ==
    \E n \in DOMAIN entries :
        \E i \in DOMAIN entries[n], j \in DOMAIN entries[n] :
            /\ n \in entries[n][i].backlinks
            /\ n \notin entries[n][j].backlinks
            /\ entries[n][j].backlinks # {}

---------------------------------------------------------------------------
(* A single book ingested into a fresh WoTDict *)

\* In the one book ingested, for records X and Y: Y's name is in every
\* backlink set stored for X's name exactly when Y's info links to X's
\* identifier.
BacklinksMatchLinks(jdata) ==
    \A x \in DOMAIN jdata, y \in DOMAIN jdata :
        \A i \in DOMAIN entries[jdata[x].name] :
            jdata[y].name \in entries[jdata[x].name][i].backlinks
                <=> ContainsLinkTo(jdata[y].info, jdata[x].id)

\* C5 as stated: for any book data, records sharing an identifier or a
\* display name included.
C5_BacklinksConsistentAlways ==
    Len(history) = 1 => BacklinksMatchLinks(history[1].jdata)

\* C5, amended: for a book whose records have pairwise distinct identifiers
\* and pairwise distinct display names.
C5_BacklinksConsistent ==
    (/\ Len(history) = 1
     /\ UniqueIds(history[1].jdata)
     /\ UniqueNames(history[1].jdata))
        => BacklinksMatchLinks(history[1].jdata)

\* A book of two such records, the second linking to the first and the
\* first to nothing.
C5_Witness ==
    /\ Len(history) = 1
    /\ LET jdata == history[1].jdata
       IN  /\ Len(jdata) = 2
           /\ UniqueIds(jdata)
           /\ UniqueNames(jdata)
           /\ ContainsLinkTo(jdata[2].info, jdata[1].id)
           /\ ~ContainsLinkTo(jdata[2].info, jdata[2].id)
           /\ ~ContainsLinkTo(jdata[1].info, jdata[1].id)
           /\ ~ContainsLinkTo(jdata[1].info, jdata[2].id)
           /\ entries[jdata[1].name][1].backlinks = {jdata[2].name}
           /\ entries[jdata[2].name][1].backlinks = {}

---------------------------------------------------------------------------
(* The link pattern table over several ingestions *)

IdsOf(jdata) == {jdata[r].id : r \in DOMAIN jdata}

IdsSeen == UNION {IdsOf(history[i].jdata) : i \in DOMAIN history}

\* The name the most recently ingested book that holds id gives it (the
\* name of its last record with that identifier).
LatestName(id) ==
    LET i     == Max({i \in DOMAIN history : id \in IdsOf(history[i].jdata)})
        jdata == history[i].jdata
    IN  jdata[Max({r \in DOMAIN jdata : jdata[r].id = id})].name

\* C7: the table maps exactly the identifiers ingested so far, each once,
\* and each to the name the most recently ingested book holding it gives it.
C7_LastWriteWins ==
    /\ {link_patterns[p].id : p \in DOMAIN link_patterns} = IdsSeen
    /\ \A p \in DOMAIN link_patterns, q \in DOMAIN link_patterns :
          link_patterns[p].id = link_patterns[q].id => p = q
    /\ \A id \in IdsSeen : Lookup(link_patterns, id) = LatestName(id)

\* An identifier that two books gave different names is absent from the
\* book ingested last and still maps to the second of the two names.
C7_Witness ==
    /\ Len(history) = 3
    /\ \E id \in IdsOf(history[1].jdata) \cap IdsOf(history[2].jdata) :
          /\ id \notin IdsOf(history[3].jdata)
          /\ \A r \in DOMAIN history[1].jdata :
                history[1].jdata[r].id = id => history[1].jdata[r].name = "P"
          /\ \A r \in DOMAIN history[2].jdata :
                history[2].jdata[r].id = id => history[2].jdata[r].name = "Q"
          /\ Lookup(link_patterns, id) = "Q"

---------------------------------------------------------------------------
(* _convert_defi_links on its own *)

\* What a text is made of: a letter, an underscore, a space, and markdown
\* links to a, to b and to an identifier no table knows.
TextItems ==
    {<<"x">>, <<"_">>, <<" ">>,
     Link(<<"l">>, "a"), Link(<<"m">>, "b"), Link(<<"n">>, "z")}

RECURSIVE Concat(_)
Concat(ss) == IF ss = <<>> THEN <<>> ELSE Head(ss) \o Concat(Tail(ss))

Texts == {Concat(ss) : ss \in SeqsUpTo(TextItems, MaxItems)}

\* The tables _compile_link_patterns builds from a book.
TextTables == {CompileLinkPatterns(b) : b \in TableBooks}

InitText ==
    /\ defi \in Texts
    /\ link_patterns \in TextTables
    /\ converted = Pending
    /\ entries = Unused /\ history = Unused
    /\ word = Unused /\ alt_words = Unused
    /\ files = Unused /\ dicts = Unused /\ pc = Unused
    /\ written = Unused /\ log = Unused

Convert ==
    /\ converted = Pending
    /\ converted' = ConvertDefiLinks(link_patterns, defi)
    /\ UNCHANGED <<defi, dictVars, altVars, mainVars>>

SpecText == InitText /\ [][Convert]_vars

\* The markdown links of text to identifier id: <<i, k>> with "[" at i, the
\* label in between, and "](#id)" from k on.
LinksTo(text, id) ==
    {ik \in (DOMAIN text) \X (DOMAIN text) :
        /\ ik[1] < ik[2]
        /\ text[ik[1]] = "["
        /\ text[ik[2]] = "]"
        /\ \A j \in (ik[1] + 1)..(ik[2] - 1) : text[j] \notin {"[", "]"}
        /\ ik[2] + 4 <= Len(text)
        /\ SubSeq(text, ik[2] + 1, ik[2] + 4) = <<"(", "#", id, ")">>}

KnownIds == {link_patterns[p].id : p \in DOMAIN link_patterns}

\* C8 as stated: every link to a known identifier becomes a hyperlink whose
\* target and whose visible text are both the display name mapped to the
\* identifier.
C8_AnchorIsName ==
    converted # Pending =>
        \A id \in KnownIds :
            LinksTo(defi, id) # {} =>
                Contains(converted,
                         <<AOpen, Lookup(link_patterns, id), AMid,
                           Lookup(link_patterns, id), AClose>>)

\* C8, amended: every link [label](#id) to a known identifier becomes a
\* hyperlink whose target is the display name mapped to the identifier and
\* whose visible text is the original label, and no markdown link to a
\* known identifier is left in the output.
C8_AnchorIsLabel ==
    converted # Pending =>
        \A id \in KnownIds :
            /\ \A ik \in LinksTo(defi, id) :
                  Contains(converted,
                           <<AOpen, Lookup(link_patterns, id), AMid>>
                               \o SubSeq(defi, ik[1] + 1, ik[2] - 1)
                               \o <<AClose>>)
            /\ ~ContainsLinkTo(converted, id)

\* An emphasised link to a known identifier, converted: the hyperlink
\* stands inside the emphasis markup.
C8_Witness ==
    /\ converted # Pending
    /\ \E id \in KnownIds :
          /\ LinksTo(defi, id) # {}
          /\ \E label \in {<<"l">>, <<"m">>} :
                Contains(converted,
                         <<EmOpen, AOpen, Lookup(link_patterns, id), AMid>>
                             \o label \o <<AClose, EmClose>>)

---------------------------------------------------------------------------
(* WoTDict._get_alt_words *)

\* The characters of a name: an upper-case letter, a lower-case letter, the
\* space, the parentheses and the apostrophe.
Alphabet == {"A", "a", " ", "(", ")", "'"}

\* [a-z]
IsLowerLetter(c) == c = "a"

\* str.lower()
ToLower(w) == [i \in DOMAIN w |-> IF w[i] = "A" THEN "a" ELSE w[i]]

\* The parenthetical pattern, matched at the start of w: group 1 runs to
\* the last character that is no space before the first "(", group 2 to the
\* first ")" behind it, group 3 is what follows the spaces after that ")".
ParenMatch(w) ==
    LET p    == FirstIndex(w, 1, "(")
        head == {j \in 1..(p - 1) : w[j] # " "}
        r    == IF p = 0 THEN 0 ELSE FirstIndex(w, p + 1, ")")
        rest == {j \in (r + 1)..Len(w) : w[j] # " "}
    IN  IF p = 0 \/ head = {} \/ r = 0
        THEN [ok |-> FALSE]
        ELSE [ok |-> TRUE,
              g1 |-> SubSeq(w, 1, Max(head)),
              g2 |-> SubSeq(w, p + 1, r - 1),
              g3 |-> IF rest = {} THEN <<>>
                     ELSE SubSeq(w, Min(rest), Len(w))]

\* What the parenthetical rule yields.
ParenWords(w) ==
    LET m == ParenMatch(w)
    IN  IF ~m.ok THEN <<>>
        ELSE <<IF m.g3 # <<>> THEN m.g2 \o <<" ">> \o m.g3
                              ELSE m.g1 \o <<" ">> \o m.g2,
               m.g1 \o <<" ">> \o m.g3>>

\* w.split(" ") from position i on
RECURSIVE SplitFrom(_, _)
SplitFrom(w, i) ==
    LET k == FirstIndex(w, i, " ")
    IN  IF k = 0 THEN <<SubSeq(w, i, Len(w))>>
        ELSE <<SubSeq(w, i, k - 1)>> \o SplitFrom(w, k + 1)

\* w.strip("()")
StripParens(w) ==
    LET keep == {j \in DOMAIN w : w[j] \notin {"(", ")"}}
    IN  IF keep = {} THEN <<>> ELSE SubSeq(w, Min(keep), Max(keep))

\* The prefix pattern: one or two lower-case letters and an apostrophe at
\* the start of ww; the number of characters it takes, 0 without a match.
PrefixLen(ww) ==
    IF Len(ww) >= 2 /\ IsLowerLetter(ww[1]) /\ ww[2] = "'" THEN 2
    ELSE IF /\ Len(ww) >= 3
            /\ IsLowerLetter(ww[1]) /\ IsLowerLetter(ww[2])
            /\ ww[3] = "'" THEN 3
    ELSE 0

\* What one token of the name yields.
TokenWords(w) ==
    LET ww == StripParens(w)
    IN  IF ww = <<>> THEN <<>>
        ELSE IF PrefixLen(ww) # 0
             THEN <<ww, SubSeq(ww, PrefixLen(ww) + 1, Len(ww))>>
             ELSE <<ww>>

RECURSIVE TokensFrom(_, _)
TokensFrom(tokens, i) ==
    IF i > Len(tokens) THEN <<>>
    ELSE TokenWords(tokens[i]) \o TokensFrom(tokens, i + 1)

\* _get_words()
GetWords(w) == <<w>> \o ParenWords(w) \o TokensFrom(SplitFrom(w, 1), 1)

\* Every word, followed by its lower-case form.
RECURSIVE WithLower(_, _)
WithLower(ws, i) ==
    IF i > Len(ws) THEN <<>>
    ELSE <<ws[i], ToLower(ws[i])>> \o WithLower(ws, i + 1)

\* WoTDict._get_alt_words
GetAltWords(w) == WithLower(GetWords(w), 1)

Words == SeqsUpTo(Alphabet, MaxWordLen)

InitAlt ==
    /\ word \in Words
    /\ alt_words = Pending
    /\ entries = Unused /\ link_patterns = Unused /\ history = Unused
    /\ defi = Unused /\ converted = Unused
    /\ files = Unused /\ dicts = Unused /\ pc = Unused
    /\ written = Unused /\ log = Unused

AltWords ==
    /\ alt_words = Pending
    /\ alt_words' = GetAltWords(word)
    /\ UNCHANGED <<word, dictVars, textVars, mainVars>>

SpecAlt == InitAlt /\ [][AltWords]_vars

\* C9: for a non-empty name, no string _get_alt_words yields is empty.
C9_NoEmptyAltWord ==
    alt_words # Pending =>
        \A i \in DOMAIN alt_words : alt_words[i] # <<>>

---------------------------------------------------------------------------
(* main: the dictionary variants and their build_dict calls *)

\* Python's None, for a field that otherwise holds a number.
None == -1

\* A variant list in which the cumulative variants hold one WoTDict object.
variantsSharingOneDict ==
    <<[after |-> None, wot_dict |-> None, prefix |-> "wot"],
      [after |-> None, wot_dict |-> 2, prefix |-> "wot-cumulative-ns_chronological"],
      [after |-> 10, wot_dict |-> 2, prefix |-> "wot-cumulative-ns_publishing"],
      [after |-> 14, wot_dict |-> 2, prefix |-> "wot-cumulative-ns_last"]>>

\* The DictVariant list of main.  wot_dict is the identity of the WoTDict
\* object the variant holds: the default factory gives every variant that
\* does not pass wot_dict an object of its own.
variants ==
    <<[after |-> None, wot_dict |-> None, prefix |-> "wot"],
      [after |-> None, wot_dict |-> 2, prefix |-> "wot-cumulative-ns_chronological"],
      [after |-> 10, wot_dict |-> 3, prefix |-> "wot-cumulative-ns_publishing"],
      [after |-> 14, wot_dict |-> 4, prefix |-> "wot-cumulative-ns_last"]>>

\* The WoTDict objects the variant list holds.
VariantDicts == {variants[v].wot_dict : v \in DOMAIN variants} \ {None}

MainBookNumbers == 0..Len(books)

\* The book numbers of the build_dict calls main makes for a variant, in
\* order: New Spring first, or right after the book the variant names.
BuildOrder(var) ==
    IF var.after = None
    THEN <<new_spring[1]>> \o [i \in 1..Len(books) |-> i]
    ELSE [i \in 1..var.after |-> i] \o <<new_spring[1]>>
             \o [i \in 1..(Len(books) - var.after) |-> var.after + i]

\* What the book files may hold.
MainBooks == MergeBooks

InitMain ==
    /\ \E f \in [0..(FilePeriod - 1) -> MainBooks] :
          files = [n \in MainBookNumbers |-> f[n % FilePeriod]]
    /\ dicts = [o \in VariantDicts |-> NewWoTDict]
    /\ pc = <<1, 1>>
    /\ written = [variant |-> 0, book |-> 0, entries |-> <<>>]
    /\ log = [v \in DOMAIN variants |-> {}]
    /\ entries = Unused /\ link_patterns = Unused /\ history = Unused
    /\ defi = Unused /\ converted = Unused
    /\ word = Unused /\ alt_words = Unused

\* DictVariant.build_dict(num, name) for the variant and step pc names:
\* the variant's WoTDict, or a new one when it holds none, ingests the file
\* of the book and is written out.  Of write_dict the model keeps the entry
\* mapping it serialises (ghost written); the HTML and the files are the
\* glossary library's.
BuildDict ==
    /\ pc[1] \in DOMAIN variants
    /\ LET v   == pc[1]
           var == variants[v]
           num == BuildOrder(var)[pc[2]]
       IN  \E d \in {IngestInto(IF var.wot_dict = None THEN NewWoTDict
                                ELSE dicts[var.wot_dict],
                                files[num], num, BookTitle(num))} :
               /\ dicts' = IF var.wot_dict = None THEN dicts
                           ELSE [dicts EXCEPT ![var.wot_dict] = d]
               /\ written' = [variant |-> v, book |-> num, entries |-> d.entries]
               /\ log' = [log EXCEPT ![v] = @ \cup
                            {<<files[num][r].name, num>> : r \in DOMAIN files[num]}]
               /\ pc' = IF pc[2] < Len(BuildOrder(var)) THEN <<v, pc[2] + 1>>
                        ELSE <<v + 1, 1>>
    /\ UNCHANGED <<files, dictVars, textVars, altVars>>

SpecMain == InitMain /\ [][BuildDict]_vars

\* Every occurrence written was ingested by the writing variant.
WrittenIsOwn ==
    \A n \in DOMAIN written.entries : \A i \in DOMAIN written.entries[n] :
        <<n, written.entries[n][i].book_number>> \in log[written.variant]

NamesOf(jdata) == {jdata[r].name : r \in DOMAIN jdata}

\* C10 as stated: at every write_dict call the mapping written holds only
\* occurrences the writing variant ingested, and for the variant without a
\* WoTDict of its own it holds the names of the book just ingested, each
\* with a one-element list.
C10_OneElementLists ==
    written.variant \in DOMAIN variants =>
        /\ WrittenIsOwn
        /\ variants[written.variant].wot_dict = None =>
              /\ DOMAIN written.entries = NamesOf(files[written.book])
              /\ \A n \in DOMAIN written.entries :
                    /\ Len(written.entries[n]) = 1
                    /\ written.entries[n][1].book_number = written.book

\* C10, amended: the same, the list of a name holding one occurrence for
\* each record of the book just ingested that carries the name (one element
\* when the book lists the name once).
C10_NoSharedState ==
    written.variant \in DOMAIN variants =>
        /\ WrittenIsOwn
        /\ variants[written.variant].wot_dict = None =>
              /\ DOMAIN written.entries = NamesOf(files[written.book])
              /\ \A n \in DOMAIN written.entries :
                    /\ Len(written.entries[n]) =
                          Cardinality({r \in DOMAIN files[written.book] :
                                          files[written.book][r].name = n})
                    /\ \A i \in DOMAIN written.entries[n] :
                          written.entries[n][i].book_number = written.book

\* The third variant writes after New Spring, ingested behind book 10: the
\* two variants before it have run, and a name it writes has accumulated
\* eleven occurrences, all its own.
C10_Witness ==
    /\ written.variant \in DOMAIN variants
    /\ written.variant = 3
    /\ written.book = 0
    /\ log[1] # {} /\ log[2] # {}
    /\ \E n \in DOMAIN written.entries : Len(written.entries[n]) = 11

=============================================================================
